---- MODULE Spec2Model ----
(***************************************************************************)
(* BufferedIterableSource (players/IterablePlayer/BufferedIterableSource): *)
(* a producer task reads ahead from the wrapped source into a queue, a     *)
(* consumer generator drains the queue; the two tasks run on one event     *)
(* loop and suspend only at awaits (source next(), Condvar.wait(), the     *)
(* producer promise).  Every action below is one run of a task from one    *)
(* suspension point to the next.                                           *)
(*                                                                         *)
(* Time is counted in whole units (the code's {sec, nsec} pairs compared   *)
(* lexicographically are order-isomorphic to integers).  Queue entries are *)
(* indices into the source's emission sequence src, so that two emissions  *)
(* with equal content are still told apart.                                *)
(*                                                                         *)
(* The caller drives the generator sequentially: it calls next() or        *)
(* return() only when its previous call has settled.  stopProducer() is    *)
(* reached through the generator's finally block, its only caller here.    *)
(* readAheadDuration ranges over positive durations: with a zero duration  *)
(* the stamp loop re-enqueues a stamp for ever and the state space is      *)
(* unbounded.                                                              *)
(*                                                                         *)
(* CachedFilelike (util/CachedFilelike): read requests are queued and      *)
(* served from a byte cache that one stream at a time fills.  Its actions  *)
(* are the synchronous part of read(), the callbacks read() attaches to    *)
(* open(), and the "data" and "error" handlers of a stream; each runs to   *)
(* its end without interruption.  Offsets and sizes are counted in units   *)
(* of 5 MiB, the slack getNewConnection allows a connection; the file is   *)
(* small enough for the byte cache never to evict.                        *)
(*                                                                         *)
(* ChunkedRangeCache (the block cache behind the byte cache) and           *)
(* CachingIterableSource (the source BufferedIterableSource wraps) are     *)
(* imported by the two classes above; each is modelled from its contract   *)
(* as a component of its own, driven by its callers' calls.                *)
(*                                                                         *)
(* The components do not share state: each specification moves one and     *)
(* leaves the others as constructed.                                       *)
(***************************************************************************)
EXTENDS Integers, Sequences, FiniteSets, TLC

\* ---------------------------------------------------------------- bounds
MaxLen == 3
MaxTime == 2
MaxReadAhead == 1
LiveMaxLen == 2
ScenarioCount == 20
ScenarioReadAhead == 5
FileSize == 3
CacheBudget == 2
MaxReads == 2
MaxStreams == 3
MaxErrors == 2
MaxClock == 100
SmallBlockSize == 2
SmallVirtualBlocks == 4
SmallNumberOfBlocks == 2
StubMaxLen == 2
StubMaxTime == 1
StubMaxCalls == 2

\* ------------------------------------------------------ program constants
DEFAULT_READ_AHEAD_DURATION == 10
\* CachedFilelike counts offsets and sizes in units of 5 MiB.
CLOSE_ENOUGH_BYTES_TO_NOT_START_NEW_CONNECTION == 1
\* Date.now() counts milliseconds.
ERROR_WINDOW_MS == 100
\* The default of cacheSizeInBytes: larger than every size.
Infinity == 1000000
\* The block cache of the eviction scenario: total size, blockSize, numberOfBlocks.
ScenarioCacheSize == 100
ScenarioBlockSize == 10
ScenarioNumberOfBlocks == 3

VARIABLES
    initResult,         \* this.initResult: set or not, and the source's time bounds
    readAheadDuration,  \* this.readAheadDuration
    readDone,           \* this.readDone
    aborted,            \* this.aborted
    readSignal,         \* Condvar: "idle" | "waiting" (consumer queued) | "notified"
    writeSignal,        \* Condvar: "idle" | "waiting" (producer queued) | "notified"
    cache,              \* this.cache, a FIFO of source indices
    readHead,           \* this.readHead
    producer,           \* this.producer: "undefined" | "set"
    ptask,              \* state of the promise startProducer returned
    ppc,                \* where the producer task is suspended
    readUntil,          \* startProducer's local readUntil
    result,             \* startProducer's loop variable (a source index, 0 = none)
    src,                \* what the wrapped source emits, in order
    srcPos,             \* index of the next emission of the source iterator
    srcStart,           \* args.start of the latest source.messageIterator call
    srcInvoked,         \* source.messageIterator was invoked for this session
    topicsEmpty,        \* args.topics.length === 0 for this session
    cpc,                \* where the consumer generator is suspended
    req,                \* the caller's outstanding request on the generator
    lastResult,         \* how the caller's last call ended
    out                 \* results yielded to the caller in this session

bisVars == <<initResult, readAheadDuration, readDone, aborted, readSignal, writeSignal,
             cache, readHead, producer, ptask, ppc, readUntil, result, src, srcPos,
             srcStart, srcInvoked, topicsEmpty, cpc, req, lastResult, out>>

\* CachedFilelike (util/CachedFilelike) and its environment.
VARIABLES
    cacheSizeInBytes,        \* this._cacheSizeInBytes (Infinity when the option is absent)
    keepReconnecting,        \* this._keepReconnectingCallback is set
    fileSize,                \* this._fileSize (Undefined before open() has resolved)
    virtualBuffer,           \* this._virtualBuffer: the byte held at each offset, or NoData
    closed,                  \* this._closed
    currentConnection,       \* this._currentConnection: {stream, remainingRange}, stream 0 = none
    readRequests,            \* this._readRequests, a list of promise numbers
    lastResolvedCallbackEnd, \* this._lastResolvedCallbackEnd (Undefined when not set)
    lastErrorTime,           \* this._lastErrorTime (Undefined when not set)
    streams,                 \* the streams FileReader.fetch returned, in call order
    promises,                \* what read() returned, in call order
    clock,                   \* Date.now()
    callbackLog,             \* the arguments keepReconnectingCallback was called with
    resolveLog               \* the promises resolve() was called on, in call order

cfVars == <<cacheSizeInBytes, keepReconnecting, fileSize, virtualBuffer, closed,
            currentConnection, readRequests, lastResolvedCallbackEnd, lastErrorTime,
            streams, promises, clock, callbackLog, resolveLog>>

\* ChunkedRangeCache: the block cache behind the byte cache (VirtualLRUBuffer).
VARIABLES
    crcSize,            \* the total size of the resource
    crcBlockSize,       \* the size of a block
    crcNumberOfBlocks,  \* how many blocks the cache may hold
    crcBlocks,          \* the blocks held, the least recently touched first
    crcResident         \* the offsets that have data

crcVars == <<crcSize, crcBlockSize, crcNumberOfBlocks, crcBlocks, crcResident>>

\* CachingIterableSource over a call-counting stub source.
VARIABLES
    stub,           \* what the underlying source holds: [topic, time] in time order
    stubCalls,      \* how many times the underlying messageIterator was invoked
    cachedTopics,   \* the topic set the cache was filled for
    loadedTimes,    \* the loaded ranges, as the set of times they cover
    cachedItems,    \* the cached results (indices into stub)
    iter,           \* the iterator messageIterator() returned last
    firstCall       \* a completed call, kept to compare a later one with

cisVars == <<stub, stubCalls, cachedTopics, loadedTimes, cachedItems, iter, firstCall>>

\* What the actions of one component leave alone.
besidesBis == <<cfVars, crcVars, cisVars>>
besidesFilelike == <<bisVars, crcVars, cisVars>>
besidesChunked == <<bisVars, cfVars, cisVars>>
besidesCaching == <<bisVars, cfVars, crcVars>>

vars == <<bisVars, cfVars, crcVars, cisVars>>

\* --------------------------------------------------------------- helpers
Times == 0..MaxTime
SourceStart == 0
Items == [type : {"message-event", "stamp"}, time : Times]

IsSorted(s) == \A i \in 1..(Len(s) - 1) : s[i].time <= s[i + 1].time

SeqsUpTo(S, n) == UNION {[1..k -> S] : k \in 0..n}

\* An IIterableSource emits results in non-decreasing time order.
Sources == {s \in SeqsUpTo(Items, MaxLen) : IsSorted(s)}

ItemTime(i) == src[i].time
ItemType(i) == src[i].type

\* rostime: add, compare, clampTime
addTime(a, b) == a + b
compare(a, b) == IF a < b THEN -1 ELSE IF a > b THEN 1 ELSE 0
clampTime(t, lo, hi) == IF compare(lo, t) > 0 THEN lo ELSE IF compare(hi, t) < 0 THEN hi ELSE t

\* Condvar.notifyAll(): resolves every queued waiter; with no waiter it is lost.
notifyAll(cv) == IF cv = "waiting" THEN "notified" ELSE cv

\* The first emission of a source iterator opened at `start`.
SourceFirstIndex(start) ==
    IF \E i \in 1..Len(src) : ItemTime(i) >= start
    THEN CHOOSE i \in 1..Len(src) :
            /\ ItemTime(i) >= start
            /\ \A j \in 1..(i - 1) : ItemTime(j) < start
    ELSE Len(src) + 1

\* ------------------------------------------------------------------ Init
\* ------------------------------------------- CachedFilelike: its values
\* An unset optional field (_fileSize, _lastResolvedCallbackEnd, _lastErrorTime).
Undefined == -1

\* An offset the byte cache holds no data for.
NoData == -1

\* The file behind the FileReader: the byte at each offset.
FileByte(i) == (3 * i + 1) % 256

Offsets == 0..(FileSize - 1)

\* No range (an absent argument of getNewConnection, or its undefined result).
NoRange == [start |-> 0, end |-> 0]

\* this._currentConnection === undefined
NoConnection == [stream |-> 0, remainingRange |-> NoRange]

\* new VirtualLRUBuffer({size}): nothing resident.  With at most FileSize
\* offsets the file fits in the blocks the buffer is given, so that it never
\* evicts.
EmptyBuffer == [i \in Offsets |-> NoData]

\* The state after `new CachedFilelike({fileReader, cacheSizeInBytes: cs,
\* keepReconnectingCallback})`, the callback given iff kr.
FilelikeConstructed(cs, kr) ==
    /\ cacheSizeInBytes = cs
    /\ keepReconnecting = kr
    /\ fileSize = Undefined
    /\ virtualBuffer = EmptyBuffer
    /\ closed = FALSE
    /\ currentConnection = NoConnection
    /\ readRequests = <<>>
    /\ lastResolvedCallbackEnd = Undefined
    /\ lastErrorTime = Undefined
    /\ streams = <<>>
    /\ promises = <<>>
    /\ clock = 0
    /\ callbackLog = <<>>
    /\ resolveLog = <<>>

\* ------------------------------------------------------ ChunkedRangeCache
\* The state after construction with `size`, `blockSize` and `numberOfBlocks`:
\* no block is held and no offset has data.
ChunkedConstructed(size, blockSize, numberOfBlocks) ==
    /\ crcSize = size
    /\ crcBlockSize = blockSize
    /\ crcNumberOfBlocks = numberOfBlocks
    /\ crcBlocks = <<>>
    /\ crcResident = {}

\* The cache a component that is not moved is left with.
ChunkedIdle == ChunkedConstructed(0, 1, 1)

\* --------------------------------------------------- CachingIterableSource
\* No iterator (before the first call, and after one has ended).
NoIterator ==
    [state |-> "none", topics |-> {}, start |-> 0, end |-> 0, covered |-> FALSE,
     callsBefore |-> 0, out |-> <<>>]

\* No call kept.
NoCall == [kept |-> FALSE, topics |-> {}, start |-> 0, end |-> 0, out |-> <<>>]

\* The state after `new CachingIterableSource(source)` over a stub holding s:
\* nothing is loaded, nothing is cached.
CachingConstructed(s) ==
    /\ stub = s
    /\ stubCalls = 0
    /\ cachedTopics = {}
    /\ loadedTimes = {}
    /\ cachedItems = {}
    /\ iter = NoIterator
    /\ firstCall = NoCall

\* ------------------------------------------------- BufferedIterableSource
\* The state after construction over a source emitting s, with option
\* readAheadDuration = ra.
Constructed(s, ra) ==
    /\ initResult = [set |-> FALSE, start |-> 0, end |-> 0]
    /\ readAheadDuration = ra
    /\ readDone = FALSE
    /\ aborted = FALSE
    /\ readSignal = "idle"
    /\ writeSignal = "idle"
    /\ cache = <<>>
    /\ readHead = 0
    /\ producer = "undefined"
    /\ ptask = "none"
    /\ ppc = "none"
    /\ readUntil = 0
    /\ result = 0
    /\ src = s
    /\ srcPos = 1
    /\ srcStart = 0
    /\ srcInvoked = FALSE
    /\ topicsEmpty = FALSE
    /\ cpc = "none"
    /\ req = "none"
    /\ lastResult = "none"
    /\ out = <<>>

\* opt.readAheadDuration is a positive duration, or absent (the default applies).
Init ==
    \E s \in Sources, ra \in (1..MaxReadAhead) \cup {DEFAULT_READ_AHEAD_DURATION} :
        /\ Constructed(s, ra)
        /\ FilelikeConstructed(Infinity, FALSE)
        /\ ChunkedIdle
        /\ CachingConstructed(<<>>)

\* ------------------------------------------------------------ initialize
\* initialize(): the wrapped source reports its time bounds.
SourceEndOf(s) == IF s = <<>> THEN SourceStart ELSE s[Len(s)].time

Initialize ==
    /\ ~initResult.set
    /\ initResult' = [set |-> TRUE, start |-> SourceStart, end |-> SourceEndOf(src)]
    /\ UNCHANGED <<readAheadDuration, readDone, aborted, readSignal, writeSignal,
                   cache, readHead, producer, ptask, ppc, readUntil, result, src,
                   srcPos, srcStart, srcInvoked, topicsEmpty, cpc, req, lastResult, out>>
    /\ UNCHANGED besidesBis

\* -------------------------------------------------------------- producer
\* A producer that puts the new result at the head of the queue.
CacheEnqueue_AtHead(q, i) == <<i>> \o q

\* this.cache.enqueue(result): VecQueue appends at the tail.
CacheEnqueue(q, i) == Append(q, i)

\* readUntil = addTime(this.readHead, this.readAheadDuration)
ReadUntilFor(rh) == addTime(rh, readAheadDuration)

\* result.type === "stamp" && compare(result.stamp, readUntil) >= 0
StampPastHorizon(i, ru) == ItemType(i) = "stamp" /\ compare(ItemTime(i), ru) >= 0

\* A producer that stops batching at the horizon itself.
KeepReading_Strict(i, ru) == ItemType(i) = "message-event" /\ compare(ItemTime(i), ru) < 0

\* result.type === "message-event" && compare(receiveTime, readUntil) <= 0
KeepReading(i, ru) == ItemType(i) = "message-event" /\ compare(ItemTime(i), ru) <= 0

\* A finally block that wakes the consumer but leaves readDone as it was.
ProducerFinally_NoReadDone(outcome) ==
    /\ readSignal' = notifyAll(readSignal)
    /\ readDone' = readDone
    /\ ppc' = "done"
    /\ ptask' = outcome

\* A finally block that sets readDone without waking the consumer.
ProducerFinally_NoNotify(outcome) ==
    /\ readSignal' = readSignal
    /\ readDone' = TRUE
    /\ ppc' = "done"
    /\ ptask' = outcome

\* The finally block of startProducer, and the settling of its promise.
ProducerFinally(outcome) ==
    /\ readSignal' = notifyAll(readSignal)
    /\ readDone' = TRUE
    /\ ppc' = "done"
    /\ ptask' = outcome

\* One pass of the for-await body with result i, up to the next await.
\* `result` is only read again inside the stamp loop, so it is kept there only.
ProducerBody(i) ==
    IF aborted
    THEN /\ ProducerFinally("fulfilled")
         /\ result' = 0
         /\ UNCHANGED <<cache, readUntil, writeSignal>>
    ELSE LET ru == ReadUntilFor(readHead) IN
         /\ readUntil' = ru
         /\ cache' = CacheEnqueue(cache, i)
         /\ readSignal' = notifyAll(readSignal)
         /\ IF StampPastHorizon(i, ru)
            THEN /\ ppc' = "stampWait"
                 /\ result' = i
                 /\ writeSignal' = "waiting"
            ELSE IF KeepReading(i, ru) \/ Len(cache') = 0
            THEN /\ ppc' = "awaitSource"
                 /\ result' = 0
                 /\ UNCHANGED writeSignal
            ELSE /\ ppc' = "msgWait"
                 /\ result' = 0
                 /\ writeSignal' = "waiting"
         /\ UNCHANGED <<readDone, ptask>>

\* The source iterator answers next() with its next result.
SourceYield ==
    /\ ppc = "awaitSource"
    /\ srcPos <= Len(src)
    /\ srcPos' = srcPos + 1
    /\ ProducerBody(srcPos)
    /\ UNCHANGED <<initResult, readAheadDuration, aborted, readHead, producer, src,
                   srcStart, srcInvoked, topicsEmpty, cpc, req, lastResult, out>>
    /\ UNCHANGED besidesBis

\* The source iterator answers next() with done: the loop ends normally.
SourceDone ==
    /\ ppc = "awaitSource"
    /\ srcPos > Len(src)
    /\ ProducerFinally("fulfilled")
    /\ UNCHANGED <<initResult, readAheadDuration, aborted, writeSignal, cache, readHead,
                   producer, readUntil, result, src, srcPos, srcStart, srcInvoked,
                   topicsEmpty, cpc, req, lastResult, out>>
    /\ UNCHANGED besidesBis

\* The source iterator rejects next(): the exception leaves through finally.
SourceThrow ==
    /\ ppc = "awaitSource"
    /\ ProducerFinally("rejected")
    /\ UNCHANGED <<initResult, readAheadDuration, aborted, writeSignal, cache, readHead,
                   producer, readUntil, result, src, srcPos, srcStart, srcInvoked,
                   topicsEmpty, cpc, req, lastResult, out>>
    /\ UNCHANGED besidesBis

\* Resumption after `await this.writeSignal.wait()` at the end of the loop body:
\* the for-await asks the source for the next result.
ProducerWakeMsg ==
    /\ ppc = "msgWait"
    /\ writeSignal = "notified"
    /\ writeSignal' = "idle"
    /\ ppc' = "awaitSource"
    /\ UNCHANGED <<initResult, readAheadDuration, readDone, aborted, readSignal, cache,
                   readHead, producer, ptask, readUntil, result, src, srcPos, srcStart,
                   srcInvoked, topicsEmpty, cpc, req, lastResult, out>>
    /\ UNCHANGED besidesBis

\* A stamp loop that ends as soon as the horizon has reached the stamp.
StampLoopContinues_Strict(i, ru) == compare(ItemTime(i), ru) > 0

\* while (compare(result.stamp, readUntil) >= 0)
StampLoopContinues(i, ru) == compare(ItemTime(i), ru) >= 0

\* Resumption after `await this.writeSignal.wait()` inside the stamp loop.
ProducerWakeStamp ==
    /\ ppc = "stampWait"
    /\ writeSignal = "notified"
    /\ LET ru == ReadUntilFor(readHead) IN
       /\ readUntil' = ru
       /\ IF StampLoopContinues(result, ru)
          THEN /\ cache' = CacheEnqueue(cache, result)
               /\ readSignal' = notifyAll(readSignal)
               /\ writeSignal' = "waiting"
               /\ UNCHANGED <<ppc, result>>
          ELSE /\ ppc' = "awaitSource"
               /\ result' = 0
               /\ writeSignal' = "idle"
               /\ UNCHANGED <<cache, readSignal>>
    /\ UNCHANGED <<initResult, readAheadDuration, readDone, aborted, readHead, producer,
                   ptask, src, srcPos, srcStart, srcInvoked, topicsEmpty, cpc, req,
                   lastResult, out>>
    /\ UNCHANGED besidesBis

\* -------------------------------------------------------------- consumer
\* The read head after dequeuing item i.
ConsumerReadHead(i, rh) ==
    IF ItemType(i) = "stamp" THEN ItemTime(i)
    ELSE IF ItemType(i) = "message-event" THEN ItemTime(i)
    ELSE rh

\* The generator's finally block up to its await: stopProducer() sets aborted,
\* notifies writeSignal and awaits this.producer.
ConsumerFinally ==
    /\ aborted' = TRUE
    /\ writeSignal' = notifyAll(writeSignal)
    /\ cpc' = "stopping"

\* One pass of the generator's for(;;) body, up to its await or yield, on behalf
\* of the caller's request r.  The consumer is not queued on readSignal while it
\* runs; it queues itself again only at `await self.readSignal.wait()`.
ConsumerLoop(r) ==
    IF cache = <<>>
    THEN IF readDone
         THEN /\ ConsumerFinally
              /\ readSignal' = "idle"
              /\ req' = r
              /\ UNCHANGED <<cache, readHead, lastResult, out>>
         ELSE /\ cpc' = "waitRead"
              /\ readSignal' = "waiting"
              /\ req' = r
              /\ UNCHANGED <<aborted, writeSignal, cache, readHead, lastResult, out>>
    ELSE LET item == Head(cache) IN
         /\ cache' = Tail(cache)
         /\ readHead' = ConsumerReadHead(item, readHead)
         /\ writeSignal' = notifyAll(writeSignal)
         /\ out' = Append(out, item)
         /\ cpc' = "yielded"
         /\ readSignal' = "idle"
         /\ req' = "none"
         /\ lastResult' = "item"
         /\ UNCHANGED aborted

\* The caller calls next() on the generator (suspended at its start or at yield).
GeneratorNext ==
    /\ req = "none"
    /\ cpc \in {"start", "yielded"}
    /\ IF cpc = "start" /\ topicsEmpty
       THEN /\ ConsumerFinally
            /\ req' = "next"
            /\ UNCHANGED <<readSignal, cache, readHead, lastResult, out>>
       ELSE ConsumerLoop("next")
    /\ UNCHANGED <<initResult, readAheadDuration, readDone, producer, ptask, ppc,
                   readUntil, result, src, srcPos, srcStart, srcInvoked, topicsEmpty>>
    /\ UNCHANGED besidesBis

\* Resumption after `await self.readSignal.wait()`.
ConsumerWake ==
    /\ cpc = "waitRead"
    /\ readSignal = "notified"
    /\ ConsumerLoop(req)
    /\ UNCHANGED <<initResult, readAheadDuration, readDone, producer, ptask, ppc,
                   readUntil, result, src, srcPos, srcStart, srcInvoked, topicsEmpty>>
    /\ UNCHANGED besidesBis

\* The caller calls return() on the generator.  A generator that has not started
\* completes at once without running its body, so its finally block is skipped;
\* one suspended at yield runs its finally block.
GeneratorReturn ==
    /\ req = "none"
    /\ cpc \in {"start", "yielded"}
    /\ IF cpc = "start"
       THEN /\ cpc' = "done"
            /\ lastResult' = "returned"
            /\ UNCHANGED <<aborted, writeSignal, req>>
       ELSE /\ ConsumerFinally
            /\ req' = "return"
            /\ UNCHANGED lastResult
    /\ UNCHANGED <<initResult, readAheadDuration, readDone, readSignal, cache, readHead,
                   producer, ptask, ppc, readUntil, result, src, srcPos, srcStart,
                   srcInvoked, topicsEmpty, out>>
    /\ UNCHANGED besidesBis

\* A stopProducer() that returns without awaiting the producer promise.
StopProducerResume_NoAwait ==
    /\ cpc = "stopping"
    /\ cpc' = "done"
    /\ req' = "none"
    /\ producer' = "undefined"
    /\ lastResult' = IF req = "return" THEN "returned" ELSE "done"
    /\ UNCHANGED <<initResult, readAheadDuration, readDone, aborted, readSignal,
                   writeSignal, cache, readHead, ptask, ppc, readUntil, result, src,
                   srcPos, srcStart, srcInvoked, topicsEmpty, out>>
    /\ UNCHANGED besidesBis

\* stopProducer() resumes after `await this.producer`: a fulfilled promise lets it
\* clear the field and the generator completes; a rejected one throws out of
\* stopProducer and out of the generator's finally block.
StopProducerResume ==
    /\ cpc = "stopping"
    /\ ptask \in {"fulfilled", "rejected"}
    /\ cpc' = "done"
    /\ req' = "none"
    /\ IF ptask = "fulfilled"
       THEN /\ producer' = "undefined"
            /\ lastResult' = IF req = "return" THEN "returned" ELSE "done"
       ELSE /\ lastResult' = IF req = "return" THEN "return-error" ELSE "error"
            /\ UNCHANGED producer
    /\ UNCHANGED <<initResult, readAheadDuration, readDone, aborted, readSignal,
                   writeSignal, cache, readHead, ptask, ppc, readUntil, result, src,
                   srcPos, srcStart, srcInvoked, topicsEmpty, out>>
    /\ UNCHANGED besidesBis

\* ------------------------------------------------------- messageIterator
\* A guard that looks at whether the producer task is still running.
ProducerRegistered_Running == ptask = "pending"

\* if (this.producer) throw ...
ProducerRegistered == producer # "undefined"

\* A producer that opens the source at the source's start, not at readHead.
StartProducer_FromSourceStart(empty) ==
    IF empty
    THEN /\ readDone' = TRUE
         /\ ppc' = "done"
         /\ ptask' = "fulfilled"
         /\ srcInvoked' = FALSE
         /\ UNCHANGED <<cache, readUntil, srcPos, srcStart>>
    ELSE /\ cache' = <<>>
         /\ srcInvoked' = TRUE
         /\ srcStart' = initResult.start
         /\ srcPos' = SourceFirstIndex(initResult.start)
         /\ readUntil' = clampTime(ReadUntilFor(readHead'), initResult.start, initResult.end)
         /\ readDone' = FALSE
         /\ ppc' = "awaitSource"
         /\ ptask' = "pending"

\* A producer without the early return for an empty topic list.
StartProducer_SkipsEmptyCheck(empty) ==
    /\ cache' = <<>>
    /\ srcInvoked' = TRUE
    /\ srcStart' = readHead'
    /\ srcPos' = SourceFirstIndex(readHead')
    /\ readUntil' = clampTime(ReadUntilFor(readHead'), initResult.start, initResult.end)
    /\ readDone' = FALSE
    /\ ppc' = "awaitSource"
    /\ ptask' = "pending"

\* A producer that starts on the queue as the session before left it.
StartProducer_KeepsQueue(empty) ==
    IF empty
    THEN /\ readDone' = TRUE
         /\ ppc' = "done"
         /\ ptask' = "fulfilled"
         /\ srcInvoked' = FALSE
         /\ UNCHANGED <<cache, readUntil, srcPos, srcStart>>
    ELSE /\ cache' = cache
         /\ srcInvoked' = TRUE
         /\ srcStart' = readHead'
         /\ srcPos' = SourceFirstIndex(readHead')
         /\ readUntil' = clampTime(ReadUntilFor(readHead'), initResult.start, initResult.end)
         /\ readDone' = FALSE
         /\ ppc' = "awaitSource"
         /\ ptask' = "pending"

\* The synchronous part of startProducer(args), run inside messageIterator().
StartProducer(empty) ==
    IF empty
    THEN /\ readDone' = TRUE
         /\ ppc' = "done"
         /\ ptask' = "fulfilled"
         /\ srcInvoked' = FALSE
         /\ UNCHANGED <<cache, readUntil, srcPos, srcStart>>
    ELSE /\ cache' = <<>>
         /\ srcInvoked' = TRUE
         /\ srcStart' = readHead'
         /\ srcPos' = SourceFirstIndex(readHead')
         /\ readUntil' = clampTime(ReadUntilFor(readHead'), initResult.start, initResult.end)
         /\ readDone' = FALSE
         /\ ppc' = "awaitSource"
         /\ ptask' = "pending"

\* messageIterator(args) with args.start = start (SourceStart when absent) and
\* args.topics empty or not.  A call that throws is recorded in lastResult.
MessageIterator(start, empty) ==
    /\ UNCHANGED besidesBis
    /\ IF ~initResult.set
       THEN /\ lastResult' = "uninitialized"
            /\ UNCHANGED <<initResult, readAheadDuration, readDone, aborted, readSignal,
                           writeSignal, cache, readHead, producer, ptask, ppc, readUntil,
                           result, src, srcPos, srcStart, srcInvoked, topicsEmpty, cpc,
                           req, out>>
       ELSE IF ProducerRegistered
       THEN /\ lastResult' = "invariant"
            /\ UNCHANGED <<initResult, readAheadDuration, readDone, aborted, readSignal,
                           writeSignal, cache, readHead, producer, ptask, ppc, readUntil,
                           result, src, srcPos, srcStart, srcInvoked, topicsEmpty, cpc,
                           req, out>>
       ELSE /\ readHead' = start
            /\ aborted' = FALSE
            /\ producer' = "set"
            /\ StartProducer(empty)
            /\ topicsEmpty' = empty
            /\ cpc' = "start"
            /\ req' = "none"
            /\ lastResult' = "iterator"
            /\ out' = <<>>
            /\ UNCHANGED <<initResult, readAheadDuration, readSignal, writeSignal, result, src>>

\* args.start is a time of the source's range (absent: initResult.start).
CallMessageIterator ==
    \E start \in Times, empty \in BOOLEAN : MessageIterator(start, empty)

\* ------------------------------------------------------------------ Spec
Next ==
    \/ Initialize
    \/ CallMessageIterator
    \/ SourceYield
    \/ SourceDone
    \/ SourceThrow
    \/ ProducerWakeMsg
    \/ ProducerWakeStamp
    \/ GeneratorNext
    \/ ConsumerWake
    \/ GeneratorReturn
    \/ StopProducerResume

Spec == Init /\ [][Next]_vars

\* The event loop runs every continuation that is ready, and the wrapped source
\* answers every outstanding next().
LoopFairness ==
    /\ WF_vars(SourceYield)
    /\ WF_vars(SourceDone)
    /\ WF_vars(ProducerWakeMsg)
    /\ WF_vars(ProducerWakeStamp)
    /\ WF_vars(ConsumerWake)
    /\ WF_vars(StopProducerResume)

\* The behaviours checked for eventual progress range over the shorter sources.
LiveInit == Init /\ Len(src) <= LiveMaxLen

LoopFairSpec == LiveInit /\ [][Next]_vars /\ LoopFairness

\* In addition the caller keeps calling next() while the generator is suspended.
FairSpec == LiveInit /\ [][Next]_vars /\ LoopFairness /\ WF_vars(GeneratorNext)

\* ---------------------------------------------------------------- scenario
\* One message on /a at each of t = 0, 1, ..., ScenarioCount - 1, read with
\* readAheadDuration = ScenarioReadAhead from t = 0.
ScenarioSource == [i \in 1..ScenarioCount |-> [type |-> "message-event", time |-> i - 1]]

ScenarioInit ==
    /\ Constructed(ScenarioSource, ScenarioReadAhead)
    /\ FilelikeConstructed(Infinity, FALSE)
    /\ ChunkedIdle
    /\ CachingConstructed(<<>>)

ScenarioNext ==
    \/ Initialize
    \/ MessageIterator(SourceStart, FALSE)
    \/ SourceYield
    \/ SourceDone
    \/ ProducerWakeMsg
    \/ GeneratorNext
    \/ ConsumerWake
    \/ GeneratorReturn
    \/ StopProducerResume

ScenarioSpec == ScenarioInit /\ [][ScenarioNext]_vars

\* ========================================================= CachedFilelike
\* ranges.ts, VirtualLRUBuffer and getNewConnection are imported by
\* CachedFilelike; they are modelled from their contracts.

Min(a, b) == IF a < b THEN a ELSE b

\* VirtualLRUBuffer.hasData(start, end)
HasData(b, start, end) == \A i \in start..(end - 1) : b[i] # NoData

\* VirtualLRUBuffer.slice(start, end)
Slice(b, start, end) == [k \in 1..(end - start) |-> b[start + k - 1]]

\* VirtualLRUBuffer.copyFrom(chunk, offset)
CopyFrom(b, chunk, offset) ==
    [i \in DOMAIN b |-> IF i >= offset /\ i < offset + Len(chunk)
                        THEN chunk[i - offset + 1]
                        ELSE b[i]]

\* missingRanges(range, downloadedRanges)[0]: the first maximal part of range
\* that is not resident, NoRange when all of it is.
FirstMissingRange(b, range) ==
    LET miss == {i \in range.start..(range.end - 1) : b[i] = NoData}
    IN IF miss = {}
       THEN NoRange
       ELSE LET a == CHOOSE i \in miss : \A j \in miss : i <= j
                stops == {j \in (a + 1)..range.end : j = range.end \/ b[j] # NoData}
            IN [start |-> a, end |-> CHOOSE j \in stops : \A k \in stops : j <= k]

\* getNewConnection with a pending read request: open a connection unless the
\* current one is about to deliver the first missing byte of the request.
NewConnectionForRequest(conn, request, b, maxRequestSize, size, threshold) ==
    LET missing == FirstMissingRange(b, request)
        remaining == conn.remainingRange
        startNew == \/ conn.stream = 0
                    \/ missing.start < remaining.start
                    \/ missing.start > remaining.end
                    \/ missing.start > remaining.start + threshold
    IN IF ~startNew
       THEN NoRange
       ELSE IF maxRequestSize >= size
       THEN FirstMissingRange(b, [start |-> missing.start, end |-> size])
       ELSE IF missing.end = request.end
       THEN FirstMissingRange(b, [start |-> missing.start,
                                  end |-> Min(request.start + maxRequestSize, size)])
       ELSE missing

\* getNewConnection with no read request and no connection: read ahead, from
\* the end of the last resolved request when there is one.
NewConnectionForReadAhead(b, lastEnd, maxRequestSize, size) ==
    IF maxRequestSize >= size
    THEN LET ahead == FirstMissingRange(b, [start |-> IF lastEnd = Undefined THEN 0 ELSE lastEnd,
                                            end |-> size])
         IN IF ahead # NoRange THEN ahead
            ELSE FirstMissingRange(b, [start |-> 0, end |-> size])
    ELSE IF lastEnd # Undefined
    THEN FirstMissingRange(b, [start |-> lastEnd, end |-> Min(lastEnd + maxRequestSize, size)])
    ELSE NoRange

\* getNewConnection(options): the range to connect to, NoRange for undefined.
getNewConnection(conn, request, b, lastEnd, maxRequestSize, size, threshold) ==
    IF request # NoRange
    THEN NewConnectionForRequest(conn, request, b, maxRequestSize, size, threshold)
    ELSE IF conn.stream = 0
    THEN NewConnectionForReadAhead(b, lastEnd, maxRequestSize, size)
    ELSE NoRange

\* ---------------------------------------------------------- _setConnection
\* stream.destroy() on stream s of st (none when s = 0)
Destroy(st, s) == [k \in DOMAIN st |-> IF k = s THEN [st[k] EXCEPT !.destroyed = TRUE] ELSE st[k]]

\* What FileReader.fetch(range.start, range.end - range.start) returns.
NewStream(range) ==
    [start |-> range.start, end |-> range.end, delivered |-> 0, bytesRead |-> 0,
     errors |-> 0, destroyed |-> FALSE]

\* A _setConnection that opens the new stream and leaves the old one open.
SetConnection_KeepsOldStream(range, conn, st) ==
    /\ Len(st) < MaxStreams
    /\ streams' = Append(st, NewStream(range))
    /\ currentConnection' = [stream |-> Len(st) + 1, remainingRange |-> range]

\* _setConnection(range), up to the registration of the handlers; conn and st
\* are the connection and the streams as the caller left them.
SetConnection(range, conn, st) ==
    /\ Len(st) < MaxStreams
    /\ streams' = Append(Destroy(st, conn.stream), NewStream(range))
    /\ currentConnection' = [stream |-> Len(st) + 1, remainingRange |-> range]

\* ------------------------------------------------------------ _updateState
\* A filter that resolves the request at the head of the queue only.
ReadyRequests_HeadOnly(q, pr, b) ==
    IF q # <<>> /\ HasData(b, pr[q[1]].start, pr[q[1]].end) THEN <<q[1]>> ELSE <<>>

\* The requests the filter of _updateState resolves, in the order it visits them.
ReadyRequests(q, pr, b) == SelectSeq(q, LAMBDA id : HasData(b, pr[id].start, pr[id].end))

\* resolve(buffer) on a promise: a promise settles once.  The promise keeps
\* how many streams had been fetched by then, and how many resolve() calls
\* had been made when this run of _updateState began.
Resolve(p, b, fetched, before) ==
    IF p.state = "pending"
    THEN [p EXCEPT !.state = "resolved", !.value = Slice(b, p.start, p.end),
                   !.fetches = fetched, !.batch = before]
    ELSE p

\* reject(error) on a promise: a promise settles once.
Reject(p, kind, id) ==
    IF p.state \in {"opening", "pending"}
    THEN [p EXCEPT !.state = "rejected", !.error = kind, !.errorId = id]
    ELSE p

\* _updateState(), run with the fields as its caller left them: closed flag cl,
\* byte cache b, connection conn, request queue q, promises pr, streams st.
UpdateState(cl, b, conn, q, pr, st) ==
    IF cl
    THEN /\ readRequests' = q
         /\ promises' = pr
         /\ currentConnection' = conn
         /\ streams' = st
         /\ UNCHANGED <<lastResolvedCallbackEnd, resolveLog>>
    ELSE LET ready == ReadyRequests(q, pr, b)
             isReady(id) == \E k \in 1..Len(ready) : ready[k] = id
             rest == SelectSeq(q, LAMBDA id : ~isReady(id))
             lastEnd == IF ready = <<>> THEN lastResolvedCallbackEnd
                        ELSE pr[ready[Len(ready)]].end
             newConnection ==
                 getNewConnection(conn,
                                  IF rest = <<>> THEN NoRange
                                  ELSE [start |-> pr[rest[1]].start, end |-> pr[rest[1]].end],
                                  b, lastEnd, cacheSizeInBytes, fileSize',
                                  CLOSE_ENOUGH_BYTES_TO_NOT_START_NEW_CONNECTION)
         IN /\ readRequests' = rest
            /\ promises' = [id \in DOMAIN pr |->
                               IF isReady(id) THEN Resolve(pr[id], b, Len(st), Len(resolveLog))
                               ELSE pr[id]]
            /\ resolveLog' = resolveLog \o ready
            /\ lastResolvedCallbackEnd' = lastEnd
            /\ IF newConnection # NoRange
               THEN SetConnection(newConnection, conn, st)
               ELSE /\ currentConnection' = conn
                    /\ streams' = st

\* -------------------------------------------------------------------- read
\* The promise read(offset, length) returns, in state st.
NewPromise(offset, length, st) ==
    [state |-> st, start |-> offset, end |-> offset + length,
     awaitsOpen |-> (fileSize = Undefined), arrival |-> 0, value |-> <<>>,
     error |-> "none", errorId |-> <<>>, fetches |-> 0, batch |-> 0]

\* A call of read() that threw: it returned no promise.
Thrown(message) == [NewPromise(0, 0, "thrown") EXCEPT !.error = message]

\* A read() that does not compare the length with the cache budget.
ReadOutcome_NoBudgetCheck(offset, length) ==
    IF length = 0
    THEN NewPromise(offset, length, "resolved")
    ELSE IF offset < 0 \/ length < 0
    THEN Thrown("invalid input")
    ELSE NewPromise(offset, length, "opening")

\* How the synchronous part of read(offset, length) ends.
ReadOutcome(offset, length) ==
    IF length = 0
    THEN NewPromise(offset, length, "resolved")
    ELSE IF offset < 0 \/ length < 0
    THEN Thrown("invalid input")
    ELSE IF length > cacheSizeInBytes
    THEN Thrown("more than cache size")
    ELSE NewPromise(offset, length, "opening")

\* The caller calls read(offset, length): the synchronous part, up to
\* `this.open().then(...)`.
Read(offset, length) ==
    /\ Len(promises) < MaxReads
    /\ promises' = Append(promises, ReadOutcome(offset, length))
    /\ UNCHANGED <<cacheSizeInBytes, keepReconnecting, fileSize, virtualBuffer, closed,
                   currentConnection, readRequests, lastResolvedCallbackEnd,
                   lastErrorTime, streams, clock, callbackLog, resolveLog>>
    /\ UNCHANGED besidesFilelike

\* The inputs a caller may pass: in and out of the file, in and out of the budget.
CallRead == \E offset \in (-1)..(FileSize - 1), length \in (-1)..FileSize : Read(offset, length)

\* The requests pushed on _readRequests so far.
Arrivals == Cardinality({id \in DOMAIN promises : promises[id].arrival > 0})

\* open() of read number id resolves and the `.then` callback of read() runs.
\* An open() that found _fileSize unset awaited FileReader.open() and now sets
\* the size and a new byte cache.
ReadOpened(id) ==
    /\ id \in DOMAIN promises
    /\ promises[id].state = "opening"
    /\ LET p == promises[id]
           b == IF p.awaitsOpen THEN EmptyBuffer ELSE virtualBuffer
       IN /\ fileSize' = FileSize
          /\ virtualBuffer' = b
          /\ IF p.end > FileSize
             THEN /\ promises' = [promises EXCEPT ![id] = Reject(p, "past size", <<>>)]
                  /\ UNCHANGED <<currentConnection, readRequests, lastResolvedCallbackEnd,
                                 streams, resolveLog>>
             ELSE UpdateState(closed, b, currentConnection, Append(readRequests, id),
                              [promises EXCEPT ![id].state = "pending",
                                               ![id].arrival = Arrivals + 1], streams)
    /\ UNCHANGED <<cacheSizeInBytes, keepReconnecting, closed, lastErrorTime, clock,
                   callbackLog>>
    /\ UNCHANGED besidesFilelike

\* FileReader.open() rejects: the `.catch` callback of read() rejects the promise.
OpenFailed(id) ==
    /\ id \in DOMAIN promises
    /\ promises[id].state = "opening"
    /\ promises[id].awaitsOpen
    /\ promises' = [promises EXCEPT ![id] = Reject(promises[id], "open failed", <<>>)]
    /\ UNCHANGED <<cacheSizeInBytes, keepReconnecting, fileSize, virtualBuffer, closed,
                   currentConnection, readRequests, lastResolvedCallbackEnd,
                   lastErrorTime, streams, clock, callbackLog, resolveLog>>
    /\ UNCHANGED besidesFilelike

\* ---------------------------------------------------------- stream events
\* The handlers of stream s run only while s is the current connection's stream.
IsCurrent(s) == currentConnection.stream # 0 /\ s = currentConnection.stream

\* The chunk a stream emits next: the n bytes of the file that follow what it
\* has delivered.
NextChunk(s, n) == [k \in 1..n |-> FileByte(streams[s].start + streams[s].delivered + k - 1)]

\* A data handler that writes every chunk at the start of the connection's range.
ChunkOffset_RangeStart(s) == streams[s].start

\* Where the data handler copies a chunk to: currentConnection.remainingRange.start
ChunkOffset(s) == currentConnection.remainingRange.start

\* An "error" or "data" event of a stream that is not the current one: ignored.
OldStreamEvent(s) ==
    /\ s \in DOMAIN streams
    /\ ~IsCurrent(s)
    /\ UNCHANGED cfVars
    /\ UNCHANGED besidesFilelike

\* The "data" handler of the current stream s, for a chunk of n bytes.
StreamData(s, n) ==
    /\ s \in DOMAIN streams
    /\ IsCurrent(s)
    /\ n >= 1
    /\ streams[s].delivered + n <= streams[s].end - streams[s].start
    /\ LET stream == streams[s]
           b == CopyFrom(virtualBuffer, NextChunk(s, n), ChunkOffset(s))
           bytesRead == stream.bytesRead + n
           st1 == [streams EXCEPT ![s].delivered = stream.delivered + n,
                                  ![s].bytesRead = bytesRead]
           finished == HasData(b, stream.start, stream.end)
           conn == IF finished THEN NoConnection
                   ELSE [stream |-> s,
                         remainingRange |-> [start |-> stream.start + bytesRead,
                                             end |-> stream.end]]
           st2 == IF finished THEN Destroy(st1, s) ELSE st1
       IN /\ virtualBuffer' = b
          /\ IF lastErrorTime # Undefined
             THEN /\ lastErrorTime' = Undefined
                  /\ callbackLog' = IF keepReconnecting THEN Append(callbackLog, FALSE)
                                    ELSE callbackLog
             ELSE UNCHANGED <<lastErrorTime, callbackLog>>
          /\ UNCHANGED fileSize
          /\ UpdateState(closed, b, conn, readRequests, promises, st2)
    /\ UNCHANGED <<cacheSizeInBytes, keepReconnecting, closed, clock>>
    /\ UNCHANGED besidesFilelike

\* An error handler that never closes the reader.
ErrorIsFatal_Never == FALSE

\* An error handler that closes the reader with or without the callback.
ErrorIsFatal_IgnoresCallback ==
    /\ lastErrorTime # Undefined
    /\ clock - lastErrorTime < ERROR_WINDOW_MS

\* An error handler for which any error that follows an error is fatal.
ErrorIsFatal_IgnoresWindow ==
    /\ ~keepReconnecting
    /\ lastErrorTime # Undefined

\* The error handler's test for a fatal error.
ErrorIsFatal ==
    /\ ~keepReconnecting
    /\ lastErrorTime # Undefined
    /\ clock - lastErrorTime < ERROR_WINDOW_MS

\* An error handler that reports every error to the callback.
ReportsReconnecting_EveryError == keepReconnecting

\* The error handler calls keepReconnectingCallback(true).
ReportsReconnecting == keepReconnecting /\ lastErrorTime = Undefined

\* The "error" handler of the current stream s.  Every error is a fresh object,
\* named by the stream that emitted it and its rank among that stream's errors.
StreamError(s) ==
    /\ s \in DOMAIN streams
    /\ IsCurrent(s)
    /\ streams[s].errors < MaxErrors
    /\ callbackLog' = IF ReportsReconnecting THEN Append(callbackLog, TRUE)
                      ELSE callbackLog
    /\ UNCHANGED fileSize
    /\ LET st == [streams EXCEPT ![s].errors = streams[s].errors + 1]
           error == <<s, st[s].errors>>
       IN IF ~ErrorIsFatal
          THEN /\ lastErrorTime' = clock
               /\ UNCHANGED closed
               /\ UpdateState(closed, virtualBuffer, NoConnection, readRequests, promises,
                              Destroy(st, s))
          ELSE /\ closed' = TRUE
               /\ streams' = st
               /\ promises' = [id \in DOMAIN promises |->
                                  IF \E k \in 1..Len(readRequests) : readRequests[k] = id
                                  THEN Reject(promises[id], "stream", error)
                                  ELSE promises[id]]
               /\ UNCHANGED <<lastErrorTime, currentConnection, readRequests,
                              lastResolvedCallbackEnd, resolveLog>>
    /\ UNCHANGED <<cacheSizeInBytes, keepReconnecting, virtualBuffer, clock>>
    /\ UNCHANGED besidesFilelike

\* Time passes: the time within which a second error is fatal.
Tick ==
    /\ clock + ERROR_WINDOW_MS <= MaxClock
    /\ clock' = clock + ERROR_WINDOW_MS
    /\ UNCHANGED <<cacheSizeInBytes, keepReconnecting, fileSize, virtualBuffer, closed,
                   currentConnection, readRequests, lastResolvedCallbackEnd,
                   lastErrorTime, streams, promises, callbackLog, resolveLog>>
    /\ UNCHANGED besidesFilelike

\* ------------------------------------------------------ the specification
\* cacheSizeInBytes is a budget or absent; keepReconnectingCallback is given or not.
FilelikeInit ==
    /\ Constructed(<<>>, DEFAULT_READ_AHEAD_DURATION)
    /\ \E cs \in {CacheBudget, Infinity}, kr \in BOOLEAN : FilelikeConstructed(cs, kr)
    /\ ChunkedIdle
    /\ CachingConstructed(<<>>)

FilelikeNext ==
    \/ CallRead
    \/ \E id \in 1..MaxReads : ReadOpened(id)
    \/ \E id \in 1..MaxReads : OpenFailed(id)
    \/ \E s \in 1..MaxStreams, n \in 1..FileSize : StreamData(s, n)
    \/ \E s \in 1..MaxStreams : StreamError(s)
    \/ \E s \in 1..MaxStreams : OldStreamEvent(s)
    \/ Tick

FilelikeSpec == FilelikeInit /\ [][FilelikeNext]_vars

\* A reader without keepReconnectingCallback: the one a fatal error can close.
FailFastInit == FilelikeInit /\ ~keepReconnecting

\* The promise of open() settles and the callbacks read() attached to it run.
\* Nothing makes a stream emit an event.
FilelikeFairSpec ==
    /\ FailFastInit
    /\ [][FilelikeNext]_vars
    /\ WF_vars(\E id \in 1..MaxReads : ReadOpened(id) \/ OpenFailed(id))

\* ====================================================== ChunkedRangeCache
\* The block cache is modelled from its contract: the resource is divided in
\* blocks of blockSize bytes, at most numberOfBlocks of them are held, and
\* every block a write or a read goes through becomes the most recently
\* touched one.

\* The block an offset belongs to.
BlockOf(offset) == offset \div crcBlockSize

\* The offsets of block k.
BlockOffsets(k) == (k * crcBlockSize)..(Min((k + 1) * crcBlockSize, crcSize) - 1)

\* The offsets of [start, end).
RangeOffsets(start, end) == start..(end - 1)

\* hasData(start, end) over a set of resident offsets.
ChunkedHasData(resident, start, end) == RangeOffsets(start, end) \subseteq resident

\* A cache that gives up the block touched last.
BlockToEvict_MostRecent(blocks) == blocks[Len(blocks)]

\* The block given up when a new block is needed and none is free: the least
\* recently touched one.
BlockToEvict(blocks) == blocks[1]

\* blocks without block k
WithoutBlock(blocks, k) == SelectSeq(blocks, LAMBDA b : b # k)

\* The cache c = [blocks, resident] after block k has been touched: a held
\* block becomes the most recent one; a new block takes a free place, or the
\* place of the evicted block, whose data are lost.
TouchBlock(c, k) ==
    IF \E i \in 1..Len(c.blocks) : c.blocks[i] = k
    THEN [c EXCEPT !.blocks = Append(WithoutBlock(c.blocks, k), k)]
    ELSE IF Len(c.blocks) < crcNumberOfBlocks
    THEN [c EXCEPT !.blocks = Append(c.blocks, k)]
    ELSE LET old == BlockToEvict(c.blocks)
         IN [blocks |-> Append(WithoutBlock(c.blocks, old), k),
             resident |-> c.resident \ BlockOffsets(old)]

\* The cache after the blocks first..last have been touched in ascending order.
RECURSIVE TouchBlocks(_, _, _)
TouchBlocks(c, first, last) ==
    IF first > last THEN c ELSE TouchBlocks(TouchBlock(c, first), first + 1, last)

\* The cache as a record.
ChunkedCache == [blocks |-> crcBlocks, resident |-> crcResident]

\* copyFrom(bytes, offset) with `length` bytes: every block of the range is
\* touched, then the range has data.  A range outside the resource throws.
ChunkedCopyFrom(offset, length) ==
    /\ length >= 1
    /\ offset >= 0
    /\ offset + length <= crcSize
    /\ LET c == TouchBlocks(ChunkedCache, BlockOf(offset), BlockOf(offset + length - 1))
       IN /\ crcBlocks' = c.blocks
          /\ crcResident' = c.resident \cup RangeOffsets(offset, offset + length)
    /\ UNCHANGED <<crcSize, crcBlockSize, crcNumberOfBlocks>>
    /\ UNCHANGED besidesChunked

\* slice(start, start + length): the caller has checked hasData; every block
\* of the range is touched.
ChunkedSlice(start, length) ==
    /\ length >= 1
    /\ start >= 0
    /\ start + length <= crcSize
    /\ ChunkedHasData(crcResident, start, start + length)
    /\ LET c == TouchBlocks(ChunkedCache, BlockOf(start), BlockOf(start + length - 1))
       IN /\ crcBlocks' = c.blocks
          /\ crcResident' = c.resident
    /\ UNCHANGED <<crcSize, crcBlockSize, crcNumberOfBlocks>>
    /\ UNCHANGED besidesChunked

\* The calls made on the scenario's cache are of whole blocks, one or two at
\* a time; on the small cache they start at any offset and are up to one
\* byte longer than a block, so that they cover a part of a block, a whole
\* block, or the end of one and the start of the next.
WholeBlockCalls == crcSize = ScenarioCacheSize

ChunkedStarts ==
    {i \in 0..(crcSize - 1) : WholeBlockCalls => i % crcBlockSize = 0}

ChunkedLengths ==
    IF WholeBlockCalls THEN {crcBlockSize, 2 * crcBlockSize} ELSE 1..(crcBlockSize + 1)

CallCopyFrom == \E offset \in ChunkedStarts, length \in ChunkedLengths : ChunkedCopyFrom(offset, length)

CallSlice == \E start \in ChunkedStarts, length \in ChunkedLengths : ChunkedSlice(start, length)

\* The cache of the eviction scenario, or a small one with fewer blocks than
\* the resource has.
ChunkedInit ==
    /\ Constructed(<<>>, DEFAULT_READ_AHEAD_DURATION)
    /\ FilelikeConstructed(Infinity, FALSE)
    /\ CachingConstructed(<<>>)
    /\ \/ ChunkedConstructed(ScenarioCacheSize, ScenarioBlockSize, ScenarioNumberOfBlocks)
       \/ ChunkedConstructed(SmallVirtualBlocks * SmallBlockSize, SmallBlockSize,
                             SmallNumberOfBlocks)

ChunkedNext == CallCopyFrom \/ CallSlice

ChunkedSpec == ChunkedInit /\ [][ChunkedNext]_vars

\* ================================================== CachingIterableSource
\* CachingIterableSource is modelled from its contract, over a stub source
\* that counts the calls of its messageIterator.  One iterator is consumed at
\* a time, as the producer of BufferedIterableSource does.

StubTopics == {"a", "b"}

\* The topic sets a caller asks for.
TopicSets == {{"a"}, {"a", "b"}}

StubTimes == 0..StubMaxTime

StubItems == [topic : StubTopics, time : StubTimes]

\* A source holds its results in non-decreasing time order.
StubSources == {s \in SeqsUpTo(StubItems, StubMaxLen) : IsSorted(s)}

\* The members of a set of indices in ascending order.
Ascending(S) ==
    CHOOSE s \in [1..Cardinality(S) -> S] : \A i, j \in 1..Cardinality(S) : i < j => s[i] < s[j]

\* What the underlying source's messageIterator yields for topics and
\* [start, end]: its results of these topics in the range, in order.
UnderlyingResults(topics, start, end) ==
    Ascending({i \in 1..Len(stub) :
                  stub[i].topic \in topics /\ start <= stub[i].time /\ stub[i].time <= end})

\* What the cache holds for [start, end], in order.
CachedResults(items, start, end) ==
    Ascending({i \in items : start <= stub[i].time /\ stub[i].time <= end})

\* A source that counts the time of the result just read as loaded.
LoadedBy_IncludesResultTime(start, time) == start..time

\* The span that reading a result at `time` of an iteration from `start`
\* shows to be fully read: a later result may have the same time.
LoadedBy(start, time) == start..(time - 1)

\* messageIterator({topics, start, end}): a call for another topic set
\* discards the coverage; the iterator is served from the cache iff the
\* loaded ranges cover [start, end].  Nothing is read before next().
CachingMessageIterator(topics, start, end) ==
    /\ iter.state # "open"
    /\ start <= end
    /\ LET same == topics = cachedTopics
           loaded == IF same THEN loadedTimes ELSE {}
       IN /\ cachedTopics' = topics
          /\ loadedTimes' = loaded
          /\ cachedItems' = IF same THEN cachedItems ELSE {}
          /\ iter' = [state |-> "open", topics |-> topics, start |-> start, end |-> end,
                      covered |-> (start..end) \subseteq loaded,
                      callsBefore |-> stubCalls, out |-> <<>>]
    /\ UNCHANGED <<stub, stubCalls, firstCall>>
    /\ UNCHANGED besidesCaching

CallCachingMessageIterator ==
    \E topics \in TopicSets, start \in StubTimes, end \in StubTimes :
        CachingMessageIterator(topics, start, end)

\* The iterator has yielded its last result: the call is complete.  It is
\* kept for comparison, or not, if none is kept yet.
IterComplete ==
    /\ iter' = [iter EXCEPT !.state = "done"]
    /\ \/ UNCHANGED firstCall
       \/ /\ ~firstCall.kept
          /\ firstCall' = [kept |-> TRUE, topics |-> iter.topics, start |-> iter.start,
                           end |-> iter.end, out |-> iter.out]

\* next() on an iterator served from the cache.
IterNextCached ==
    /\ iter.state = "open"
    /\ iter.covered
    /\ LET results == CachedResults(cachedItems, iter.start, iter.end)
       IN IF Len(iter.out) < Len(results)
          THEN /\ iter' = [iter EXCEPT !.out = Append(iter.out, results[Len(iter.out) + 1])]
               /\ UNCHANGED firstCall
          ELSE IterComplete
    /\ UNCHANGED <<stub, stubCalls, cachedTopics, loadedTimes, cachedItems>>
    /\ UNCHANGED besidesCaching

\* next() on an iterator that delegates: the first one invokes the underlying
\* messageIterator; each result read is cached and the span read is recorded.
IterNextDelegated ==
    /\ iter.state = "open"
    /\ ~iter.covered
    /\ LET first == stubCalls = iter.callsBefore
           results == UnderlyingResults(iter.topics, iter.start, iter.end)
       IN /\ first => stubCalls < StubMaxCalls
          /\ stubCalls' = IF first THEN stubCalls + 1 ELSE stubCalls
          /\ IF Len(iter.out) < Len(results)
             THEN LET i == results[Len(iter.out) + 1]
                  IN /\ iter' = [iter EXCEPT !.out = Append(iter.out, i)]
                     /\ cachedItems' = cachedItems \cup {i}
                     /\ loadedTimes' = loadedTimes \cup LoadedBy(iter.start, stub[i].time)
                     /\ UNCHANGED firstCall
             ELSE /\ IterComplete
                  /\ loadedTimes' = loadedTimes \cup (iter.start..iter.end)
                  /\ UNCHANGED cachedItems
    /\ UNCHANGED <<stub, cachedTopics>>
    /\ UNCHANGED besidesCaching

\* The caller gives the iterator up before its end.
IterReturn ==
    /\ iter.state = "open"
    /\ iter' = [iter EXCEPT !.state = "returned"]
    /\ UNCHANGED <<stub, stubCalls, cachedTopics, loadedTimes, cachedItems, firstCall>>
    /\ UNCHANGED besidesCaching

CachingInit ==
    /\ Constructed(<<>>, DEFAULT_READ_AHEAD_DURATION)
    /\ FilelikeConstructed(Infinity, FALSE)
    /\ ChunkedIdle
    /\ \E s \in StubSources : CachingConstructed(s)

CachingNext ==
    \/ CallCachingMessageIterator
    \/ IterNextCached
    \/ IterNextDelegated
    \/ IterReturn

CachingSpec == CachingInit /\ [][CachingNext]_vars

\* ================================================================ claims

\* C1: within one session, every two consecutive results yielded to the caller
\* have non-decreasing time.
C1_TimeMonotone ==
    \A k \in 1..(Len(out) - 1) : ItemTime(out[k]) <= ItemTime(out[k + 1])

\* Three results were yielded, across a producer block on writeSignal, with
\* time advancing between them.
C1_Witness ==
    /\ Len(out) >= 3
    /\ ItemTime(out[1]) < ItemTime(out[3])
    /\ readAheadDuration < ItemTime(out[3])

\* C2: the yielded results are a prefix of what the source emitted from the
\* start position: same items, same order, none dropped, none repeated.
C2_PrefixOfSource ==
    \A k \in 1..Len(out) : out[k] = SourceFirstIndex(srcStart) + k - 1

\* C3: at most one queued item lies beyond readHead + readAheadDuration.
C3_HorizonSlack ==
    Cardinality({k \in 1..Len(cache) :
                    ItemTime(cache[k]) > readHead + readAheadDuration}) <= 1

\* C4: once stopProducer() has been called, the producer task eventually
\* terminates and stopProducer() settles.
C4_StopTerminates ==
    (cpc = "stopping") ~> (cpc = "done" /\ ppc = "done")

\* C5: once return() has resolved, the producer has stopped and the producer
\* field is cleared.
C5_ReturnStopsProducer ==
    lastResult = "returned" => (producer = "undefined" /\ ppc \in {"none", "done"})

\* C7: a messageIterator() call made while a producer is registered throws the
\* only-one-iterator error and leaves every field, the queue, the producer task
\* and the existing generator as they were; a producer task that has not ended
\* is always the registered one.
C7_SecondIteratorRejected ==
    /\ [](ppc \notin {"none", "done"} => producer = "set")
    /\ [][(initResult.set /\ producer = "set" /\ CallMessageIterator)
            => /\ lastResult' = "invariant"
               /\ UNCHANGED <<initResult, readAheadDuration, readDone, aborted,
                              readSignal, writeSignal, cache, readHead, producer,
                              ptask, ppc, readUntil, result, src, srcPos, srcStart,
                              srcInvoked, topicsEmpty, cpc, req, out>>]_vars

\* A call was rejected while the existing generator had yielded results and
\* its producer had already finished without being stopped.
C7_Witness ==
    /\ lastResult = "invariant"
    /\ cpc = "yielded"
    /\ out # <<>>
    /\ ptask = "fulfilled"
    /\ producer = "set"

\* The source results a session is to deliver: from the start position on.
SessionItems == SourceFirstIndex(srcStart)..Len(src)

\* The consumer queued on readSignal while the producer is queued on
\* writeSignal, neither of them notified: the state C8 excludes.
C8_NoMutualWait ==
    ~(/\ cpc = "waitRead"
      /\ readSignal = "waiting"
      /\ ppc \in {"msgWait", "stampWait"}
      /\ writeSignal = "waiting")

\* C8: with a source that answers every next() and a caller that keeps calling
\* next(), a session terminates; the consumer and the producer never wait on
\* each other's signal at the same time; a normal end is reported only after
\* the producer has set readDone and every result was yielded.
C8_SessionTerminates ==
    /\ []C8_NoMutualWait
    /\ []((cpc = "done" /\ lastResult = "done" /\ ~topicsEmpty)
            => /\ readDone
               /\ ppc = "done"
               /\ cache = <<>>
               /\ \A i \in SessionItems : \E k \in 1..Len(out) : out[k] = i)
    /\ (cpc = "start") ~> (cpc = "done" \/ req = "return")

\* A session over a source with a stamp beyond the horizon ended normally, the
\* two results yielded once each.
C8_Witness ==
    /\ cpc = "done"
    /\ lastResult = "done"
    /\ ~topicsEmpty
    /\ out = <<1, 2>>
    /\ \E i \in SessionItems : ItemType(i) = "stamp" /\ ItemTime(i) > readAheadDuration

\* C6: when the source iterator throws, the producer has set readDone and the
\* consumer is not left queued on readSignal; the consumer's next() rejects with
\* the error only once the queue is drained, never reports a normal end, and
\* the generator does complete.
C6_SourceErrorSurfaces ==
    /\ [](ptask = "rejected" => (readDone /\ readSignal # "waiting" /\ lastResult # "done"))
    /\ [][(ptask = "rejected" /\ cpc = "stopping" /\ req = "next" /\ cpc' = "done")
            => (lastResult' = "error" /\ cache = <<>>)]_vars
    /\ (ptask = "rejected") ~> (cpc = "done")

\* The source threw after a result had been buffered; the consumer yielded it
\* and its following next() was rejected.
C6_Witness ==
    /\ ptask = "rejected"
    /\ lastResult = "error"
    /\ cpc = "done"
    /\ out # <<>>

\* A result after which the producer stops pulling until the consumer has
\* dequeued something: any stamp, and a message later than the horizon.
Blocker(i) == ItemType(i) = "stamp" \/ ItemTime(i) > readHead + readAheadDuration

\* C9 as stated: the source is opened at readHead during the call, and with no
\* next() from the caller the producer, once blocked, has queued every result
\* up to the read-ahead horizon.
C9_FillsToHorizon ==
    (cpc = "start" /\ ~topicsEmpty /\ ppc \in {"msgWait", "stampWait"})
        => /\ srcInvoked
           /\ srcStart = readHead
           /\ \A i \in SessionItems :
                ItemTime(i) <= readHead + readAheadDuration
                    => \E k \in 1..Len(cache) : cache[k] = i

\* C9 as amended: the source is opened at readHead during the call; with no
\* next() from the caller the producer goes on until it blocks or ends, and it
\* has then queued the source's results up to and including the first stamp or
\* the first message later than readHead + readAheadDuration.
C9_EagerProducer ==
    /\ [][(initResult.set /\ producer = "undefined"
             /\ \E start \in Times : MessageIterator(start, FALSE))
            => (srcInvoked' /\ srcStart' = readHead' /\ ppc' = "awaitSource"
                  /\ srcPos' = SourceFirstIndex(readHead'))]_vars
    /\ []((cpc = "start" /\ ~topicsEmpty /\ ppc \in {"msgWait", "stampWait"})
            => LET first == SourceFirstIndex(srcStart)
                   last == srcPos - 1
               IN /\ cache = [k \in 1..(last - first + 1) |-> first + k - 1]
                  /\ Blocker(last)
                  /\ \A i \in first..(last - 1) : ~Blocker(i))
    /\ []((cpc = "start" /\ ~topicsEmpty /\ ppc = "done" /\ ptask = "fulfilled")
            => LET first == SourceFirstIndex(srcStart)
               IN /\ cache = [k \in 1..(Len(src) - first + 1) |-> first + k - 1]
                  /\ \A i \in SessionItems : ~Blocker(i))
    /\ (cpc = "start" /\ ~topicsEmpty)
          ~> (cpc # "start" \/ ppc \in {"msgWait", "stampWait", "done"})

\* Before any next(), in a session started past the source's first result, the
\* producer has queued a result and is blocked on writeSignal.
C9_Witness ==
    /\ cpc = "start"
    /\ ~topicsEmpty
    /\ ppc = "msgWait"
    /\ writeSignal = "waiting"
    /\ cache # <<>>
    /\ srcStart > 0
    /\ SourceFirstIndex(srcStart) > 1

\* C10 as stated: in the scenario, with nothing consumed, the blocked producer
\* has queued exactly the messages for t = 0..ScenarioReadAhead.
C10_BlocksAtHorizon ==
    (out = <<>> /\ ppc = "msgWait")
        => cache = [k \in 1..(ScenarioReadAhead + 1) |-> k]

\* C10 as amended: with nothing consumed, the blocked producer has queued
\* exactly the messages for t = 0..ScenarioReadAhead + 1 (the first message
\* beyond the horizon included), and the queue never holds a later one.
C10_BlocksOneBeyondHorizon ==
    /\ (out = <<>> /\ ppc = "msgWait")
          => cache = [k \in 1..(ScenarioReadAhead + 2) |-> k]
    /\ out = <<>>
          => \A k \in 1..Len(cache) : ItemTime(cache[k]) <= ScenarioReadAhead + 1

\* The producer is blocked on writeSignal before anything was consumed.
C10_Witness ==
    /\ out = <<>>
    /\ cpc \in {"start", "waitRead"}
    /\ ppc = "msgWait"
    /\ writeSignal = "waiting"
    /\ Len(cache) = ScenarioReadAhead + 2

\* C11: a session opened with an empty topic list is marked done at once, the
\* wrapped source's messageIterator is not invoked for it, no result is ever
\* yielded, and the first next() completes the generator normally.
C11_EmptyTopicsYieldNothing ==
    /\ []((topicsEmpty /\ cpc # "none")
            => (readDone /\ ~srcInvoked /\ ppc = "done" /\ out = <<>>
                  /\ lastResult # "item"))
    /\ [][(topicsEmpty /\ cpc = "start" /\ GeneratorNext)
            => (cpc' = "stopping" /\ req' = "next" /\ out' = <<>>)]_vars
    /\ (topicsEmpty /\ req = "next") ~> (cpc = "done" /\ lastResult = "done")

\* An empty-topic session completed on its first next() although the queue
\* still held results of the session before it.
C11_Witness ==
    /\ topicsEmpty
    /\ cpc = "done"
    /\ lastResult = "done"
    /\ cache # <<>>

\* stopProducer() has resolved: the generator is complete and the producer
\* field is cleared.
StopProducerResolved == cpc = "done" /\ producer = "undefined"

\* C12: once stopProducer() has resolved the producer task has ended, and the
\* queue is not changed until the next messageIterator() call.
C12_NoEnqueueAfterStop ==
    /\ [](StopProducerResolved => (ppc = "done" /\ ptask = "fulfilled"))
    /\ [][StopProducerResolved => (cache' = cache \/ cpc' = "start")]_vars

\* stopProducer() resolved in the middle of a session, results still queued.
C12_Witness ==
    /\ StopProducerResolved
    /\ ~topicsEmpty
    /\ lastResult = "returned"
    /\ cache # <<>>
    /\ out # <<>>

\* The streams FileReader.fetch returned that have not been destroyed.
LiveStreams == {s \in DOMAIN streams : ~streams[s].destroyed}

\* C13: at every moment at most one stream is live, and it is the current
\* connection's; a stream whose target range is fully downloaded, or that
\* raised a non-fatal error, is no longer live nor current.
C13_OneLiveStream ==
    /\ Cardinality(LiveStreams) <= 1
    /\ \A s \in LiveStreams : IsCurrent(s)
    /\ \A s \in DOMAIN streams :
          IsCurrent(s) => /\ ~HasData(virtualBuffer, streams[s].start, streams[s].end)
                          /\ (streams[s].errors > 0 => closed)

\* Three streams were opened: one ran to its end, one raised an error, and
\* the third is live.
C13_Witness ==
    /\ Len(streams) = 3
    /\ Cardinality(LiveStreams) = 1
    /\ \E s \in DOMAIN streams :
          streams[s].destroyed /\ streams[s].delivered = streams[s].end - streams[s].start
    /\ \E s \in DOMAIN streams : streams[s].destroyed /\ streams[s].errors > 0

\* The requests of the queue (promise numbers).
Queued == {readRequests[k] : k \in 1..Len(readRequests)}

\* C14: without a keepReconnectingCallback, an error of the current stream less
\* than 100 ms after the previous error, no data received in between, rejects
\* every pending read request with that error and closes the reader; a closed
\* reader stays closed, calls resolve() on no promise and opens no connection,
\* whatever events follow.
C14_SecondErrorIsFatal ==
    /\ [][\A s \in DOMAIN streams :
            (/\ ~keepReconnecting /\ ~closed
             /\ lastErrorTime # Undefined /\ clock - lastErrorTime < ERROR_WINDOW_MS
             /\ StreamError(s))
            => /\ closed'
               /\ \A id \in Queued :
                     /\ promises'[id].state = "rejected"
                     /\ promises'[id].error = "stream"
                     /\ promises'[id].errorId = <<s, streams'[s].errors>>]_vars
    /\ [][closed
            => /\ closed'
               /\ resolveLog' = resolveLog
               /\ Len(streams') = Len(streams)
               /\ \A id \in DOMAIN promises :
                     promises'[id].state = "resolved" => promises[id].state = "resolved"]_vars

\* Two pending requests were rejected with the error that closed the reader;
\* the still current stream then delivered the bytes of both.
C14_Witness ==
    /\ closed
    /\ Len(promises) = 2
    /\ \A id \in DOMAIN promises :
          /\ promises[id].state = "rejected"
          /\ promises[id].errorId = <<2, 1>>
          /\ HasData(virtualBuffer, promises[id].start, promises[id].end)

\* The promise of read number id is not settled.
Unsettled(id) == id \in DOMAIN promises /\ promises[id].state \in {"opening", "pending"}

\* C15: once the reader is closed every read() promise that is not settled,
\* one requested after the closing included, is eventually rejected.
C15_ClosedReaderRejects ==
    \A id \in 1..MaxReads :
        (closed /\ Unsettled(id))
            ~> (id \in DOMAIN promises /\ promises[id].state = "rejected")

\* C16: with a keepReconnectingCallback no stream error closes the reader or
\* rejects a read request, however many errors there are and however close
\* together; every error of the current stream destroys that stream and
\* clears the connection, and while a request is pending a new connection is
\* opened at once, at the first byte of the request that is not resident.
C16_KeepsReconnecting ==
    /\ [](keepReconnecting
            => /\ ~closed
               /\ \A id \in DOMAIN promises : promises[id].error # "stream")
    /\ [][\A s \in DOMAIN streams :
            (keepReconnecting /\ StreamError(s))
            => /\ streams'[s].destroyed
               /\ currentConnection'.stream # s
               /\ readRequests' = readRequests
               /\ readRequests # <<>>
                    => LET head == promises[readRequests[1]]
                           new == currentConnection'.stream
                       IN /\ new = Len(streams) + 1
                          /\ ~streams'[new].destroyed
                          /\ streams'[new].start
                                = FirstMissingRange(virtualBuffer,
                                      [start |-> head.start, end |-> head.end]).start]_vars

\* Two streams in a row raised an error at the same instant; a third one is
\* open for the request, which is still pending.
C16_Witness ==
    /\ keepReconnecting
    /\ Len(streams) = 3
    /\ streams[1].errors = 1
    /\ streams[2].errors = 1
    /\ LiveStreams = {3}
    /\ clock = 0
    /\ readRequests # <<>>
    /\ ~closed

\* C17: keepReconnectingCallback is called with true by the first error after
\* a healthy period and with false by the first data after an error, and by
\* nothing else: its calls alternate true, false, true, ... from true on.
C17_CallbackAlternates ==
    /\ [](\A k \in 1..Len(callbackLog) : callbackLog[k] = (k % 2 = 1))
    /\ [](~keepReconnecting => callbackLog = <<>>)
    /\ [](keepReconnecting => (lastErrorTime # Undefined <=> Len(callbackLog) % 2 = 1))
    /\ [][\A s \in DOMAIN streams :
            (keepReconnecting /\ StreamError(s))
            => callbackLog' = IF lastErrorTime = Undefined
                              THEN Append(callbackLog, TRUE) ELSE callbackLog]_vars
    /\ [][\A s \in DOMAIN streams, n \in 1..FileSize :
            (keepReconnecting /\ StreamData(s, n))
            => callbackLog' = IF lastErrorTime # Undefined
                              THEN Append(callbackLog, FALSE) ELSE callbackLog]_vars

\* One failed fetch followed by a successful one: the read is resolved and
\* the callback saw exactly true, then false.
C17_Witness ==
    /\ callbackLog = <<TRUE, FALSE>>
    /\ Len(streams) = 2
    /\ streams[1].delivered = 0
    /\ streams[1].errors = 1
    /\ Len(promises) = 1
    /\ promises[1].state = "resolved"
    /\ promises[1].fetches = 2

\* The bytes of the file at [start, end).
FileBytes(start, end) == [k \in 1..(end - start) |-> FileByte(start + k - 1)]

\* C18: a single read(offset, length) whose first stream raised an error
\* before it had delivered the requested bytes, and whose second stream raised
\* none, resolves with exactly the bytes of the file at [offset, offset +
\* length), and FileReader.fetch had been called exactly twice by then.  Every
\* resolved read holds the bytes of the file at its range.
C18_ReconnectResolves ==
    /\ \A id \in DOMAIN promises :
          promises[id].state = "resolved"
              => promises[id].value = FileBytes(promises[id].start, promises[id].end)
    /\ (/\ Len(promises) = 1
        /\ promises[1].state = "resolved"
        /\ promises[1].end > promises[1].start
        /\ Len(streams) >= 2
        /\ streams[1].errors > 0
        /\ streams[1].start + streams[1].delivered < promises[1].end
        /\ streams[2].errors = 0)
       => promises[1].fetches = 2

\* The first stream delivered the first byte of a three-byte read and raised
\* an error; the second stream delivered the rest and the read is resolved.
C18_Witness ==
    /\ Len(promises) = 1
    /\ promises[1].state = "resolved"
    /\ promises[1].end - promises[1].start = 3
    /\ Len(streams) = 2
    /\ streams[1].errors = 1
    /\ streams[1].delivered = 1
    /\ streams[2].errors = 0
    /\ streams[2].start = promises[1].start + 1
    /\ promises[1].fetches = 2

\* read(offset, length) is called with arguments of a usage error that is
\* detected before any promise is made.
InvalidArguments(offset, length) ==
    offset < 0 \/ length < 0 \/ length > cacheSizeInBytes

\* Usage errors leave the pipeline alone: a read() that threw stays as it is, a
\* range ending past the file size is rejected when open() has resolved, with
\* the queue, the connection and the streams unchanged, and every request of
\* the queue is a valid one.
UsageErrorsLeavePipelineAlone ==
    /\ [][\A id \in DOMAIN promises :
            (promises[id].end > FileSize /\ ReadOpened(id))
            => /\ promises'[id].state = "rejected"
               /\ promises'[id].error = "past size"
               /\ UNCHANGED <<readRequests, currentConnection, streams, closed>>]_vars
    /\ [][\A id \in DOMAIN promises :
            (promises[id].state = "thrown" \/ promises[id].error = "past size")
            => promises'[id] = promises[id]]_vars
    /\ [](\A id \in Queued :
            /\ promises[id].start >= 0
            /\ promises[id].end > promises[id].start
            /\ promises[id].end <= FileSize
            /\ promises[id].end - promises[id].start <= cacheSizeInBytes)

\* C19 as stated: a negative offset or length, or a length greater than
\* cacheSizeInBytes, makes read() throw synchronously, with no effect on the
\* queue, the connection or the streams; a range ending past the file size is
\* rejected; none of them is queued or retried.
C19_UsageErrorsThrow ==
    /\ [][\A offset \in (-1)..(FileSize - 1), length \in (-1)..FileSize :
            (InvalidArguments(offset, length) /\ Read(offset, length))
            => /\ promises'[Len(promises')].state = "thrown"
               /\ UNCHANGED <<readRequests, currentConnection, streams, closed>>]_vars
    /\ UsageErrorsLeavePipelineAlone

\* C19 as amended: the same for a length other than 0; with length 0 read()
\* returns a promise resolved with no bytes whatever the offset, and has no
\* effect on the queue, the connection or the streams either.
C19_NonEmptyUsageErrorsThrow ==
    /\ [][\A offset \in (-1)..(FileSize - 1), length \in (-1)..FileSize :
            Read(offset, length)
            => /\ promises'[Len(promises')].state
                    = IF length = 0 THEN "resolved"
                      ELSE IF InvalidArguments(offset, length) THEN "thrown"
                      ELSE "opening"
               /\ length = 0 => promises'[Len(promises')].value = <<>>
               /\ UNCHANGED <<readRequests, currentConnection, streams, closed>>]_vars
    /\ UsageErrorsLeavePipelineAlone

\* One read() threw for a length over the budget and another was rejected for
\* its range past the file size: no stream was opened and the queue is empty.
C19_Witness ==
    /\ Len(promises) = 2
    /\ promises[1].state = "thrown"
    /\ promises[1].error = "more than cache size"
    /\ promises[2].state = "rejected"
    /\ promises[2].error = "past size"
    /\ streams = <<>>
    /\ readRequests = <<>>

C20_BatchWitness ==
    \E a, b \in DOMAIN promises :
        /\ a # b
        /\ promises[a].state = "resolved"
        /\ promises[b].state = "resolved"
        /\ promises[a].end > promises[a].start
        /\ promises[b].end > promises[b].start
        /\ promises[a].batch = promises[b].batch

\* The promises rejected so far.
Rejected == {id \in DOMAIN promises : promises[id].state = "rejected"}

\* What C21 says of every error handler and data handler run: an open reader
\* without a keepReconnectingCallback closes only in the error handler of the
\* current stream, and only when the previous error is less than 100 ms old
\* with no data received since; a data event forgets the previous error; no
\* request of an open reader was rejected with a stream error.
FatalOnlyOnTwoCloseErrors ==
    /\ [][(~closed /\ closed')
            => /\ ~keepReconnecting
               /\ lastErrorTime # Undefined
               /\ clock - lastErrorTime < ERROR_WINDOW_MS
               /\ \E s \in DOMAIN streams : IsCurrent(s) /\ StreamError(s)]_vars
    /\ [][\A s \in DOMAIN streams, n \in 1..FileSize :
            StreamData(s, n) => (lastErrorTime' = Undefined /\ closed' = closed)]_vars
    /\ [](~closed => \A id \in DOMAIN promises : promises[id].error # "stream")

\* The error handler of stream s runs in an open reader without callback,
\* with no previous error, or one at least 100 ms old.
RetriedError(s) ==
    /\ ~keepReconnecting
    /\ ~closed
    /\ lastErrorTime = Undefined \/ clock - lastErrorTime >= ERROR_WINDOW_MS
    /\ StreamError(s)

\* C21 as stated: the reader turns fatal only on two errors less than 100 ms
\* apart with no data in between; every other error of the current stream
\* (the first one, one at least 100 ms after the previous one, one that
\* follows a data event) rejects no read request and is retried by opening a
\* new connection.
C21_ErrorsRetriedByReconnect ==
    /\ FatalOnlyOnTwoCloseErrors
    /\ [][\A s \in DOMAIN streams :
            RetriedError(s)
            => /\ ~closed'
               /\ Rejected' = Rejected
               /\ Len(streams') = Len(streams) + 1
               /\ currentConnection'.stream = Len(streams')]_vars

\* C21 as amended: such an error rejects no read request, destroys the stream
\* and clears the connection; a new connection is opened at once when a read
\* request is pending, and otherwise only if the read-ahead has a byte to
\* fetch.
C21_ErrorsRetriedWhilePending ==
    /\ FatalOnlyOnTwoCloseErrors
    /\ [][\A s \in DOMAIN streams :
            RetriedError(s)
            => /\ ~closed'
               /\ Rejected' = Rejected
               /\ readRequests' = readRequests
               /\ lastErrorTime' = clock
               /\ streams'[s].destroyed
               /\ currentConnection'.stream \in {0, Len(streams) + 1}
               /\ readRequests # <<>> => currentConnection'.stream = Len(streams) + 1
               /\ currentConnection'.stream = 0
                    => /\ Len(streams') = Len(streams)
                       /\ getNewConnection(NoConnection, NoRange, virtualBuffer,
                                           lastResolvedCallbackEnd, cacheSizeInBytes,
                                           fileSize,
                                           CLOSE_ENOUGH_BYTES_TO_NOT_START_NEW_CONNECTION)
                            = NoRange]_vars

\* Without a callback the reader is open after two errors 100 ms apart: the
\* first two streams raised one error each before any data, and the request is
\* pending on a third connection.
C21_Witness ==
    /\ ~keepReconnecting
    /\ ~closed
    /\ clock = ERROR_WINDOW_MS
    /\ Len(streams) = 3
    /\ streams[1].errors = 1
    /\ streams[2].errors = 1
    /\ streams[2].delivered = 0
    /\ LiveStreams = {3}
    /\ readRequests # <<>>

\* The offsets a write of `length` bytes at `offset` gives data.
Written(offset, length) == RangeOffsets(offset, offset + length)

\* C22: a cache holds at most numberOfBlocks blocks and only their offsets
\* have data.  A write inside one block that is not held, when no place is
\* free, evicts the least recently touched block and only that one: the data
\* of every other block stay.  A write inside a held block, or with a free
\* place, evicts nothing.  With size 100, blockSize 10 and numberOfBlocks 3,
\* after writes to [0,10), [50,60), [90,100) a write to [30,40) leaves
\* hasData(0,10) false and hasData true for [50,60), [90,100) and [30,40).
C22_EvictsLeastRecentlyTouched ==
    /\ [](Len(crcBlocks) <= crcNumberOfBlocks)
    /\ [](\A i \in crcResident : \E k \in 1..Len(crcBlocks) : crcBlocks[k] = BlockOf(i))
    /\ [][\A offset \in ChunkedStarts, length \in ChunkedLengths :
            (/\ BlockOf(offset) = BlockOf(offset + length - 1)
             /\ Written(offset, length) \subseteq crcResident'
             /\ ChunkedCopyFrom(offset, length))
            => LET k == BlockOf(offset)
                   held == \E i \in 1..Len(crcBlocks) : crcBlocks[i] = k
               IN IF ~held /\ Len(crcBlocks) = crcNumberOfBlocks
                  THEN /\ crcBlocks' = Append(Tail(crcBlocks), k)
                       /\ crcResident' = (crcResident \ BlockOffsets(crcBlocks[1]))
                                            \cup Written(offset, length)
                  ELSE crcResident' = crcResident \cup Written(offset, length)]_vars
    /\ [][(/\ crcSize = ScenarioCacheSize /\ crcBlockSize = ScenarioBlockSize
           /\ crcNumberOfBlocks = ScenarioNumberOfBlocks
           /\ crcBlocks = <<0, 5, 9>>
           /\ crcResident = Written(0, 10) \cup Written(50, 10) \cup Written(90, 10)
           /\ ChunkedCopyFrom(30, 10))
            => /\ ~ChunkedHasData(crcResident', 0, 10)
               /\ ChunkedHasData(crcResident', 50, 60)
               /\ ChunkedHasData(crcResident', 90, 100)
               /\ ChunkedHasData(crcResident', 30, 40)]_vars

\* The scenario has run: [50,60), [90,100) and [30,40) have data, in that
\* order of touch, and [0,10) has none.
C22_Witness ==
    /\ crcSize = ScenarioCacheSize
    /\ crcBlockSize = ScenarioBlockSize
    /\ crcNumberOfBlocks = ScenarioNumberOfBlocks
    /\ crcBlocks = <<5, 9, 3>>
    /\ crcResident = Written(50, 10) \cup Written(90, 10) \cup Written(30, 10)

\* The iterator was asked for the topic set and the range of the kept call.
SameCallAsFirst ==
    /\ firstCall.kept
    /\ iter.topics = firstCall.topics
    /\ iter.start = firstCall.start
    /\ iter.end = firstCall.end

\* C23: an iterator whose range was inside the loaded ranges of its topic set
\* when it was made never invokes the underlying messageIterator, and once
\* complete it has yielded the same sequence as an earlier complete call with
\* the same topic set and range: the underlying source's results for them.
C23_CachedCallRepeatsFirst ==
    /\ (iter.state # "none" /\ iter.covered) => stubCalls = iter.callsBefore
    /\ (iter.state = "done" /\ iter.covered)
          => /\ iter.out = UnderlyingResults(iter.topics, iter.start, iter.end)
             /\ SameCallAsFirst => iter.out = firstCall.out

\* A second call with the arguments of a first one that read two results
\* from the source is complete, was served from the cache and yielded the
\* same two results; the source was invoked once.
C23_Witness ==
    /\ iter.state = "done"
    /\ iter.covered
    /\ SameCallAsFirst
    /\ Len(iter.out) = 2
    /\ iter.out = firstCall.out
    /\ stubCalls = 1

\* readHead + readAheadDuration clamped to the source bounds.
ClampedHorizon ==
    clampTime(addTime(readHead, readAheadDuration), initResult.start, initResult.end)

\* C24: every readUntil the producer computes for a decision (after a result
\* of the source, and after each wake-up in the stamp loop) is readHead +
\* readAheadDuration clamped to the source bounds, and readUntil lies within
\* [sourceStart, sourceEnd] as long as a producer works.
C24_HorizonClamped ==
    /\ [][((SourceYield /\ ~aborted) \/ ProducerWakeStamp)
            => readUntil' = ClampedHorizon]_vars
    /\ [](ppc \in {"awaitSource", "msgWait", "stampWait"}
            => (initResult.start <= readUntil /\ readUntil <= initResult.end))

\* The producer task runs: from one of its three suspension points to the next.
ProducerRuns == SourceYield \/ SourceDone \/ ProducerWakeMsg \/ ProducerWakeStamp

\* C25: once aborted is set, the next run of the producer, wherever it was
\* suspended, enqueues nothing, asks the source for nothing more and ends the
\* task.
C25_AbortedProducerReturns ==
    /\ [][(aborted /\ ProducerRuns) => cache' = cache]_vars
    /\ [][(aborted /\ ProducerRuns) => ppc' = "done"]_vars

\* C26: a stamp at or beyond readHead + readAheadDuration is enqueued and the
\* producer waits in the stamp loop; as long as it is there it pulls nothing
\* from the source, and it leaves the loop, to pull the next result, only
\* when readHead + readAheadDuration is strictly greater than the stamp.
C26_StampHoldsProducer ==
    /\ [][(SourceYield /\ ~aborted /\ ItemType(srcPos) = "stamp"
             /\ ItemTime(srcPos) >= readHead + readAheadDuration)
            => (ppc' = "stampWait" /\ result' = srcPos
                  /\ cache' = Append(cache, srcPos))]_vars
    /\ [](ppc = "stampWait" => (result # 0 /\ ItemType(result) = "stamp"))
    /\ [][ppc = "stampWait" => srcPos' = srcPos]_vars
    /\ [][(ppc = "stampWait" /\ ppc' # "stampWait")
            => /\ readHead' + readAheadDuration > ItemTime(result)
               /\ ppc' = "awaitSource"
               /\ cache' = cache]_vars

\* The producer was woken in the stamp loop with the horizon still at the
\* stamp: the stamp is queued a second time and the next result of the
\* source has not been pulled.
C26_Witness ==
    /\ ppc = "stampWait"
    /\ srcPos <= Len(src)
    /\ ItemTime(result) = readHead + readAheadDuration
    /\ Cardinality({k \in 1..Len(cache) : cache[k] = result}) = 2

\* Result i was read from the source iterator of the session in progress: it
\* is one of the results that iterator, opened at the start position, has
\* emitted so far, and its time is not before the start position.
ReadInThisSession(i) ==
    /\ SourceFirstIndex(srcStart) <= i
    /\ i < srcPos
    /\ ItemTime(i) >= srcStart

\* C27: an accepted messageIterator() call with a non-empty topic list leaves
\* the queue empty, whatever it held, with the source opened at the new start
\* position; every result queued or yielded in a session was read from the
\* source in that session, at or after its start position.
C27_NoStaleItems ==
    /\ [][\A start \in Times :
            (initResult.set /\ producer = "undefined" /\ MessageIterator(start, FALSE))
            => (cache' = <<>> /\ out' = <<>> /\ readHead' = start /\ srcStart' = start
                  /\ srcPos' = SourceFirstIndex(start))]_vars
    /\ [](\A k \in 1..Len(out) : ReadInThisSession(out[k]))
    /\ []((cpc # "none" /\ ~topicsEmpty)
            => \A k \in 1..Len(cache) : ReadInThisSession(cache[k]))

\* A session was stopped with a result still queued, the producer field is
\* cleared, and the source holds a later result to seek to: a call for that
\* position would find a queued result that precedes it.
C27_Witness ==
    /\ cpc = "done"
    /\ lastResult = "returned"
    /\ producer = "undefined"
    /\ initResult.set
    /\ cache # <<>>
    /\ \E t \in Times : ItemTime(cache[1]) < t /\ SourceFirstIndex(t) <= Len(src)

\* C28: once a session has ended (the generator is complete: the source was
\* exhausted, the caller returned early, or a source error was surfaced) the
\* producer field is cleared, and a messageIterator() call made then is
\* accepted.
C28_ProducerClearedAtEnd ==
    /\ [](cpc = "done" => producer = "undefined")
    /\ [][(cpc = "done" /\ initResult.set /\ CallMessageIterator)
            => lastResult' = "iterator"]_vars

\* The read() calls whose open() found _fileSize unset and called
\* FileReader.open().
FileReaderOpens ==
    {id \in DOMAIN promises : /\ promises[id].awaitsOpen
                              /\ promises[id].state # "thrown"
                              /\ promises[id].end > promises[id].start}

\* C29: however many read() calls are made before the first open() completes,
\* FileReader.open() is called once, and no step takes away a byte that was
\* copied into the byte cache.
C29_OpenedOnce ==
    /\ [](Cardinality(FileReaderOpens) <= 1)
    /\ [][\A i \in Offsets : virtualBuffer[i] # NoData => virtualBuffer'[i] # NoData]_vars

\* C30: a closed reader holds no connection and no live stream, and nothing
\* is written into its byte cache any more.
C30_ClosedHoldsNoConnection ==
    /\ [](closed => (currentConnection = NoConnection /\ LiveStreams = {}))
    /\ [][closed => virtualBuffer' = virtualBuffer]_vars

====
